---- MODULE Spec2Model ----
(***************************************************************************)
(* A model of the OpenPond SDK clients.                                    *)
(*                                                                         *)
(*   - the polling HTTP client  (class OpenPondSDK, src/src/p2p/types.ts)  *)
(*   - the push HTTP client     (class OpenPondSDK, src/src/sdk.ts)        *)
(*   - the streaming client     (class P2PClient)                          *)
(*                                                                         *)
(* One client instance runs one transport; `variant` says which one the    *)
(* instance was built with.  SpecPoll is the polling client with its       *)
(* server and timer, SpecPush the push client with its subscriptions,      *)
(* SpecHttp either HTTP client with its unary calls, SpecP2P the streaming *)
(* client's session with its unary calls and SpecStream that session with  *)
(* its inbound events.                                                     *)
(*                                                                         *)
(* JavaScript runs every handler to completion: an action is one handler   *)
(* (or the part of an async function between two awaits).                  *)
(***************************************************************************)
EXTENDS Integers, Sequences, FiniteSets, TLC

\* ------------------------------------------------------------------ bounds
\* Messages the hosted API stores for the agent.
MaxMsgs == 2
\* Message timestamps are 1..MaxTs.
MaxTs == 2
\* Interval ticks of the polling client.
MaxPolls == 2
\* start() calls on an HTTP client.
MaxStarts == 2
\* Events the push subscription receives.
MaxEvents == 3

\* connect() calls on a streaming client.
MaxConnects == 2
\* Handlers the application registers with onMessage.
MaxHandlers == 2

NoHandle == 0

VARIABLES
  variant,               \* "poll", "push" or "p2p": the class of the instance
  \* -- fields of the HTTP clients
  privateKey,            \* config.privateKey (0: the empty string)
  messageCallback,       \* TRUE when a message callback is registered
  errorCallback,         \* TRUE when an error callback is registered
  pollInterval,          \* this.pollInterval: an interval id, or NoHandle (null)
  eventSource,           \* this.eventSource: a subscription id, or NoHandle (null)
  lastMessageTimestamp,  \* the watermark
  \* -- the environment of the HTTP clients
  intervals,             \* the intervals setInterval created and nothing cleared
  sources,               \* the EventSource objects created and not closed
  registering,           \* start() calls awaiting the registration response
  store,                 \* the server's messages for the agent: their timestamps, in arrival order
  polls,                 \* [since -> the poll requests in flight with that parameter]
  cur,                   \* the rest of the response the poll handler is iterating over
  unary,                 \* the unary call awaiting its response, or "none"
  \* -- what the application has observed
  tick,                  \* the poll response being handled, or handled by the latest step
  handed,                \* polling: [id -> the times the message callback got it]
  delivered,             \* push: the events handed to the message callback, in order
  seen,                  \* the ids the poll loop has iterated over
  arrived,               \* the push events received, in order
  last,                  \* the operation the latest step settled, and how
  nStarts, nTicks,
  \* -- fields of the streaming client
  client,                \* this.client: a client object's id, or NoHandle (null)
  stream,                \* this.stream: a stream's id, or NoHandle (null)
  messageHandler,        \* this.messageHandler: a handler, or NoHandle (undefined)
  connected,             \* this.connected
  nodeProcess,           \* this.nodeProcess: a process id, or NoHandle (undefined)
  \* -- the environment of the streaming client
  procs,                 \* the processes spawned: "running", "killed" (signalled), "exited"
  streams,               \* the streams opened: "open", "cancelled", "closed"
  clients,               \* the client objects constructed: "open" (nothing closes one)
  calls,                 \* the connect() calls: where each stands
  nConnects,
  \* -- what the application has observed
  established,           \* a connect() called after the latest disconnect() has resolved
  stale,                 \* the connect() calls that were pending at a disconnect()
  registered,            \* the handler of the latest onMessage call, or NoHandle
  plast                  \* what the latest step of the streaming client settled

httpVars == <<privateKey, messageCallback, errorCallback, pollInterval, eventSource,
              lastMessageTimestamp, intervals, sources, registering, store, polls,
              cur, unary, tick, handed, delivered, seen, arrived, last, nStarts,
              nTicks>>

p2pVars == <<client, stream, messageHandler, connected, nodeProcess, procs, streams,
             clients, calls, nConnects, established, stale, registered, plast>>

vars == <<variant, httpVars, p2pVars>>

\* ------------------------------------------------------------- HTTP clients

UnaryOps == {"sendMessage", "getMessages", "getAgent", "listAgents"}

\* What a request can come back with: a 2xx, a conflict, another non-2xx status,
\* or no response at all (0: a transport failure).
Statuses == {200, 409, 500, 0}

Max(a, b) == IF a >= b THEN a ELSE b

\* The response interceptor: on any response outside 2xx and on a transport
\* failure it calls the error callback, if one is registered, and rethrows.
\* The value is the number of calls of the error callback.
Interceptor(status) ==
  IF status = 200 THEN 0 ELSE IF errorCallback THEN 1 ELSE 0

\* A faulty variant: the catch block reports nothing.
CatchReportSilent == IF errorCallback THEN 0 ELSE 0

\* The catch block of a public method: this.errorCallback?.(error); throw error.
CatchReport == IF errorCallback THEN 1 ELSE 0

\* A faulty variant: the catch rethrows the conflict like any other error.
RegisterSwallowsNothing(status) == FALSE

\* registerAgent's catch: a 409 is ignored, everything else is rethrown.
RegisterSwallows(status) == status = 409

\* A faulty variant: registerAgent swallows every error.
RegisterResolvesAlways(status) == status = status

\* registerAgent resolves.
RegisterResolves(status) == status = 200 \/ RegisterSwallows(status)

\* The `since` parameter getMessages sends: since || this.lastMessageTimestamp in
\* the polling client, since || 0 in the push client (undefined and 0 are both falsy).
GetMessagesSince(since) ==
  IF since # 0 THEN since
  ELSE IF variant = "poll" THEN lastMessageTimestamp ELSE 0

\* The stored messages as the server holds them.
AllMessages == [i \in 1..Len(store) |-> [id |-> i, timestamp |-> store[i]]]

\* GET /messages?since=t: the stored messages whose timestamp is greater than t,
\* in the server's order.
ServerMessages(since) == SelectSeq(AllMessages, LAMBDA m : m.timestamp > since)

\* A faulty variant: the watermark is set to the message's timestamp, without Math.max.
AdvanceWatermarkNoMax(wm, m) == m.timestamp

\* The watermark after one message of the loop.
AdvanceWatermark(wm, m) == Max(wm, m.timestamp)

\* A faulty variant: the loop hands over only the messages above the current watermark
HandToCallbackAboveOnly(log, m) ==
  IF messageCallback /\ m.timestamp > lastMessageTimestamp THEN Append(log, m.id) ELSE log

\* this.messageCallback?.(message): the log with the message handed over, when a
\* callback is registered.
HandToCallback(log, m) == IF messageCallback THEN Append(log, m.id) ELSE log

IdleTick == [resp |-> <<>>, wm0 |-> 0, got |-> <<>>, cb |-> FALSE, status |-> "none"]
NoOp == [op |-> "none", status |-> 200, result |-> "none", errs |-> 0, cb |-> FALSE]

InitHttp ==
  /\ privateKey \in IF variant = "poll" THEN {1} ELSE {0, 1}
  /\ messageCallback = FALSE
  /\ errorCallback = FALSE
  /\ pollInterval = NoHandle
  /\ eventSource = NoHandle
  /\ lastMessageTimestamp = 0
  /\ intervals = {}
  /\ sources = {}
  /\ registering = 0
  /\ store = <<>>
  /\ polls = [s \in 0..MaxTs |-> 0]
  /\ cur = <<>>
  /\ unary = "none"
  /\ tick = IdleTick
  /\ handed = [i \in 1..MaxMsgs |-> 0]
  /\ delivered = <<>>
  /\ seen = {}
  /\ arrived = <<>>
  /\ last = NoOp
  /\ nStarts = 0
  /\ nTicks = 0

\* No handler is in the middle of its synchronous loop.
Quiet == cur = <<>>

OnMessage ==
  /\ variant \in {"poll", "push"}
  /\ Quiet
  /\ messageCallback' = TRUE
  /\ last' = NoOp
  /\ tick' = IdleTick
  /\ UNCHANGED <<variant, privateKey, errorCallback, pollInterval,
                  eventSource, lastMessageTimestamp, intervals, sources,
                  registering, store, polls, cur, unary, handed, delivered,
                  seen, arrived, nStarts, nTicks, p2pVars>>

OnError ==
  /\ variant \in {"poll", "push"}
  /\ Quiet
  /\ errorCallback' = TRUE
  /\ last' = NoOp
  /\ tick' = IdleTick
  /\ UNCHANGED <<variant, privateKey, messageCallback, pollInterval,
                  eventSource, lastMessageTimestamp, intervals, sources,
                  registering, store, polls, cur, unary, handed, delivered,
                  seen, arrived, nStarts, nTicks, p2pVars>>

\* start(), up to its await of the registration request.
Start ==
  /\ variant \in {"poll", "push"}
  /\ Quiet
  /\ nStarts < MaxStarts
  /\ nStarts' = nStarts + 1
  /\ registering' = registering + 1
  /\ last' = NoOp
  /\ tick' = IdleTick
  /\ UNCHANGED <<variant, privateKey, messageCallback, errorCallback,
                  pollInterval, eventSource, lastMessageTimestamp, intervals,
                  sources, store, polls, cur, unary, handed, delivered, seen,
                  arrived, nTicks, p2pVars>>

\* startPolling(): a new interval replaces the field; the old one is not cleared.
StartPolling ==
  /\ pollInterval' = nStarts + 1 - registering
  /\ intervals' = intervals \cup {nStarts + 1 - registering}
  /\ UNCHANGED <<eventSource, sources>>

\* The push client: new EventSource(url, {headers}) and its two listeners.
OpenEventSource ==
  /\ eventSource' = nStarts + 1 - registering
  /\ sources' = sources \cup {nStarts + 1 - registering}
  /\ UNCHANGED <<pollInterval, intervals>>

\* The rest of start() once the registration request settles.
RegisterResponse(status) ==
  /\ variant \in {"poll", "push"}
  /\ Quiet
  /\ registering > 0
  /\ registering' = registering - 1
  /\ IF RegisterResolves(status)
       THEN /\ IF variant = "poll" THEN StartPolling ELSE OpenEventSource
            /\ last' = [op |-> "start", status |-> status, result |-> "resolved",
                        errs |-> Interceptor(status), cb |-> errorCallback]
       ELSE /\ UNCHANGED <<pollInterval, intervals, eventSource, sources>>
            /\ last' = [op |-> "start", status |-> status, result |-> "rejected",
                        errs |-> Interceptor(status) + CatchReport, cb |-> errorCallback]
  /\ tick' = IdleTick
  /\ UNCHANGED <<variant, privateKey, messageCallback, errorCallback,
                  lastMessageTimestamp, store, polls, cur, unary, handed,
                  delivered, seen, arrived, nStarts, nTicks, p2pVars>>

Stop ==
  /\ variant \in {"poll", "push"}
  /\ Quiet
  /\ IF variant = "poll"
       THEN /\ intervals' = intervals \ {pollInterval}
            /\ pollInterval' = NoHandle
            /\ UNCHANGED <<eventSource, sources>>
       ELSE /\ sources' = sources \ {eventSource}
            /\ eventSource' = NoHandle
            /\ UNCHANGED <<pollInterval, intervals>>
  /\ last' = [NoOp EXCEPT !.op = "stop"]
  /\ tick' = IdleTick
  /\ UNCHANGED <<variant, privateKey, messageCallback, errorCallback,
                  lastMessageTimestamp, registering, store, polls, cur, unary,
                  handed, delivered, seen, arrived, nStarts, nTicks, p2pVars>>

\* Another agent's message reaches the server.
ServerStore(ts) ==
  /\ variant = "poll"
  /\ Quiet
  /\ Len(store) < MaxMsgs
  /\ store' = Append(store, ts)
  /\ last' = NoOp
  /\ tick' = IdleTick
  /\ UNCHANGED <<variant, privateKey, messageCallback, errorCallback,
                  pollInterval, eventSource, lastMessageTimestamp, intervals,
                  sources, registering, polls, cur, unary, handed, delivered,
                  seen, arrived, nStarts, nTicks, p2pVars>>

\* An interval fires: the callback calls getMessages() and awaits the response.
PollTick(i) ==
  /\ variant = "poll"
  /\ Quiet
  /\ i \in intervals
  /\ nTicks < MaxPolls
  /\ nTicks' = nTicks + 1
  /\ polls' = [polls EXCEPT ![GetMessagesSince(0)] = @ + 1]
  /\ last' = NoOp
  /\ tick' = IdleTick
  /\ UNCHANGED <<variant, privateKey, messageCallback, errorCallback,
                  pollInterval, eventSource, lastMessageTimestamp, intervals,
                  sources, registering, store, cur, unary, handed, delivered,
                  seen, arrived, nStarts, p2pVars>>

\* A faulty variant: a failed poll clears the interval.
PollResponseClears(since, status) ==
  /\ variant = "poll"
  /\ Quiet
  /\ polls[since] > 0
  /\ polls' = [polls EXCEPT ![since] = @ - 1]
  /\ status # 200
  /\ intervals' = intervals \ {pollInterval}
  /\ pollInterval' = NoHandle
  /\ last' = [op |-> "poll", status |-> status, result |-> "caught",
              errs |-> Interceptor(status) + CatchReport + CatchReport,
              cb |-> errorCallback]
  /\ tick' = IdleTick
  /\ UNCHANGED <<variant, privateKey, messageCallback, errorCallback,
                  eventSource, lastMessageTimestamp, sources, registering,
                  store, cur, unary, handed, delivered, seen, arrived,
                  nStarts, nTicks, p2pVars>>

\* The response of a poll request arrives.  A failure runs the interceptor, the
\* catch of getMessages and the catch of the interval callback.
PollResponse(since, status) ==
  /\ variant = "poll"
  /\ Quiet
  /\ polls[since] > 0
  /\ polls' = [polls EXCEPT ![since] = @ - 1]
  /\ IF status = 200
       THEN /\ cur' = ServerMessages(since)
            /\ tick' = [resp |-> ServerMessages(since), wm0 |-> lastMessageTimestamp,
                        got |-> <<>>, cb |-> messageCallback,
                        status |-> IF ServerMessages(since) = <<>> THEN "done"
                                   ELSE "delivering"]
            /\ last' = [op |-> "poll", status |-> status, result |-> "resolved",
                        errs |-> 0, cb |-> errorCallback]
       ELSE /\ cur' = cur
            /\ tick' = IdleTick
            /\ last' = [op |-> "poll", status |-> status, result |-> "caught",
                        errs |-> Interceptor(status) + CatchReport + CatchReport,
                        cb |-> errorCallback]
  /\ UNCHANGED <<variant, privateKey, messageCallback, errorCallback,
                  pollInterval, eventSource, lastMessageTimestamp, intervals,
                  sources, registering, store, unary, handed, delivered, seen,
                  arrived, nStarts, nTicks, p2pVars>>

\* One iteration of the loop over the response: the watermark first, then the
\* callback, which may throw; a throw leaves the loop for the catch block.
DeliverNext(throws) ==
  /\ variant = "poll"
  /\ cur # <<>>
  /\ throws => messageCallback
  /\ lastMessageTimestamp' = AdvanceWatermark(lastMessageTimestamp, Head(cur))
  /\ handed' = [handed EXCEPT ![Head(cur).id] = @ + Len(HandToCallback(<<>>, Head(cur)))]
  /\ seen' = seen \cup {Head(cur).id}
  /\ cur' = IF throws THEN <<>> ELSE Tail(cur)
  /\ tick' = [tick EXCEPT
                !.got = HandToCallback(@, Head(cur)),
                !.status = IF throws THEN "threw"
                           ELSE IF Tail(cur) = <<>> THEN "done" ELSE "delivering"]
  /\ last' = IF throws
               THEN [op |-> "poll", status |-> 200, result |-> "caught",
                     errs |-> CatchReport, cb |-> errorCallback]
               ELSE NoOp
  /\ UNCHANGED <<variant, privateKey, messageCallback, errorCallback,
                  pollInterval, eventSource, intervals, sources, registering,
                  store, polls, unary, delivered, arrived, nStarts, nTicks,
                  p2pVars>>

\* sendMessage, getMessages, getAgent, listAgents up to the await of the request.
UnaryCall(op) ==
  /\ variant \in {"poll", "push"}
  /\ Quiet
  /\ unary = "none"
  /\ unary' = op
  /\ last' = NoOp
  /\ tick' = IdleTick
  /\ UNCHANGED <<variant, privateKey, messageCallback, errorCallback,
                  pollInterval, eventSource, lastMessageTimestamp, intervals,
                  sources, registering, store, polls, cur, handed, delivered,
                  seen, arrived, nStarts, nTicks, p2pVars>>

\* A faulty variant: the catch block reports the error and does not rethrow it.
UnaryOutcomeSwallowed(op, status) ==
  [op |-> op, status |-> status, result |-> "resolved",
   errs |-> IF status = 200 THEN 0 ELSE Interceptor(status) + CatchReport,
   cb |-> errorCallback]

\* The call's errors reported and its outcome.
UnaryOutcome(op, status) ==
  IF status = 200
    THEN [op |-> op, status |-> status, result |-> "resolved", errs |-> 0,
          cb |-> errorCallback]
    ELSE [op |-> op, status |-> status, result |-> "rejected",
          errs |-> Interceptor(status) + CatchReport, cb |-> errorCallback]

UnaryResponse(status) ==
  /\ variant \in {"poll", "push"}
  /\ Quiet
  /\ unary # "none"
  /\ unary' = "none"
  /\ last' = UnaryOutcome(unary, status)
  /\ tick' = IdleTick
  /\ UNCHANGED <<variant, privateKey, messageCallback, errorCallback,
                  pollInterval, eventSource, lastMessageTimestamp, intervals,
                  sources, registering, store, polls, cur, handed, delivered,
                  seen, arrived, nStarts, nTicks, p2pVars>>

\* ------------------------------------------------------------- push client

\* An inbound event: data that JSON.parse rejects, or a Message with its
\* toAgentId (0: none, or the empty string).
Events == {[wf |-> FALSE, to |-> 0]} \cup [wf : {TRUE}, to : 0..2]

\* A faulty variant: the listener tests only that an identity is configured.
ForUsNoCompare(ev) == privateKey # 0

\* The listener's test: this.config.privateKey && message.toAgentId === this.config.privateKey
ForUs(ev) == privateKey # 0 /\ ev.to = privateKey

\* The "message" listener of a subscription.  JSON.parse throws on malformed data;
\* the callback's own exception lands in the same catch.
PushEvent(src, ev, throws) ==
  /\ variant = "push"
  /\ src \in sources
  /\ Len(arrived) < MaxEvents
  /\ throws => (ev.wf /\ ForUs(ev) /\ messageCallback)
  /\ arrived' = Append(arrived, [wf |-> ev.wf, to |-> ev.to, cb |-> messageCallback])
  /\ delivered' = IF ev.wf /\ ForUs(ev) /\ messageCallback
                    THEN Append(delivered, Len(arrived) + 1)
                    ELSE delivered
  /\ last' = [op |-> "event", status |-> 200,
              result |-> IF ev.wf /\ ~throws THEN "handled" ELSE "caught",
              errs |-> IF ev.wf /\ ~throws THEN 0 ELSE CatchReport,
              cb |-> errorCallback]
  /\ tick' = IdleTick
  /\ UNCHANGED <<variant, privateKey, messageCallback, errorCallback,
                  pollInterval, eventSource, lastMessageTimestamp, intervals,
                  sources, registering, store, polls, cur, unary, handed,
                  seen, nStarts, nTicks, p2pVars>>

\* The "error" listener of a subscription.
EventSourceError(src) ==
  /\ variant = "push"
  /\ src \in sources
  /\ last' = [op |-> "sourceError", status |-> 0, result |-> "reported",
              errs |-> CatchReport, cb |-> errorCallback]
  /\ tick' = IdleTick
  /\ UNCHANGED <<variant, privateKey, messageCallback, errorCallback,
                  pollInterval, eventSource, lastMessageTimestamp, intervals,
                  sources, registering, store, polls, cur, unary, handed,
                  delivered, seen, arrived, nStarts, nTicks, p2pVars>>

\* ---------------------------------------------------------- streaming client

\* let retries = 3
Retries == 3

Handlers == 1..MaxHandlers

\* What one pass of the retry loop can do: the constructor throws, the Connect
\* call throws after the client was constructed, or the stream is established.
AttemptOutcomes == {"ctorThrows", "connectThrows", "ok"}

IdleCall == [pc |-> "idle", retries |-> 0, proc |-> NoHandle, attempts |-> 0,
             backoffs |-> 0, why |-> "none"]
NoP2POp == [op |-> "none", call |-> 0, result |-> "none", handler |-> NoHandle,
            from |-> NoHandle]

InitP2P ==
  /\ client = NoHandle
  /\ stream = NoHandle
  /\ messageHandler = NoHandle
  /\ connected = FALSE
  /\ nodeProcess = NoHandle
  /\ procs = <<>>
  /\ streams = <<>>
  /\ clients = <<>>
  /\ calls = [c \in 1..MaxConnects |-> IdleCall]
  /\ nConnects = 0
  /\ established = FALSE
  /\ stale = {}
  /\ registered = NoHandle
  /\ plast = NoP2POp

\* ChildProcess.kill(): a running process gets the signal; its exit event follows.
Kill(prs, p) ==
  IF p = NoHandle THEN prs
  ELSE [prs EXCEPT ![p] = IF @ = "running" THEN "killed" ELSE @]

\* A faulty variant: the stream is left as it is.
CancelNothing(sts, s) == sts

\* stream.cancel()
Cancel(sts, s) ==
  IF s = NoHandle THEN sts
  ELSE [sts EXCEPT ![s] = IF @ = "open" THEN "cancelled" ELSE @]

\* A faulty variant: the handles are reset and the flag is left as it is.
CleanupKeepsFlag(prs, sts) ==
  /\ UNCHANGED connected
  /\ stream' = NoHandle
  /\ client' = NoHandle
  /\ messageHandler' = NoHandle
  /\ procs' = Kill(prs, nodeProcess)
  /\ nodeProcess' = NoHandle
  /\ streams' = sts

\* cleanup(): the flag and the handles are reset and the process in the handle is
\* killed.  prs and sts are the processes and streams as the caller leaves them.
Cleanup(prs, sts) ==
  /\ connected' = FALSE
  /\ stream' = NoHandle
  /\ client' = NoHandle
  /\ messageHandler' = NoHandle
  /\ procs' = Kill(prs, nodeProcess)
  /\ nodeProcess' = NoHandle
  /\ streams' = sts

\* connect()'s outer catch for call c: cleanup(), then the error is thrown to the
\* caller.  cs, prs and cls are the calls, processes and client objects so far.
Reject(c, cs, why, prs, cls) ==
  /\ Cleanup(prs, streams)
  /\ calls' = [cs EXCEPT ![c].pc = "rejected", ![c].why = why]
  /\ clients' = cls
  /\ plast' = [NoP2POp EXCEPT !.op = "connect", !.call = c, !.result = "rejected"]
  /\ UNCHANGED established

\* A faulty variant: the loop gives up one failure late.
ExhaustedLate(retries) == retries < 0

\* if (retries === 0) throw error
Exhausted(retries) == retries = 0

\* One pass of the retry loop of call c; cs0 is the calls so far.
Attempt(c, cs0, outcome) ==
  LET cs == [cs0 EXCEPT ![c].attempts = @ + 1]
      new == Len(clients) + 1
  IN
  IF outcome = "ok"
    THEN /\ clients' = Append(clients, "open")
         /\ client' = new
         /\ streams' = Append(streams, "open")
         /\ stream' = Len(streams) + 1
         /\ connected' = TRUE
         /\ calls' = [cs EXCEPT ![c].pc = "resolved"]
         /\ established' = (established \/ c \notin stale)
         /\ plast' = [NoP2POp EXCEPT !.op = "connect", !.call = c, !.result = "resolved"]
         /\ UNCHANGED <<messageHandler, nodeProcess, procs>>
    ELSE LET made == outcome = "connectThrows"
             cls == IF made THEN Append(clients, "open") ELSE clients
             left == cs[c].retries - 1
             cs2 == [cs EXCEPT ![c].retries = left]
         IN
         IF Exhausted(left)
           THEN Reject(c, cs2, "handshake", procs, cls)
           ELSE /\ clients' = cls
                /\ client' = IF made THEN new ELSE client
                /\ calls' = [cs2 EXCEPT ![c].pc = "backoff"]
                /\ plast' = NoP2POp
                /\ UNCHANGED <<stream, connected, messageHandler, nodeProcess, procs,
                               streams, established>>

\* connect() up to the await of startNode(): the executable is checked and the
\* node is spawned into this.nodeProcess, or startNode rejects at once.
Connect(c, accessOk) ==
  /\ variant = "p2p"
  /\ c = nConnects + 1
  /\ c <= MaxConnects
  /\ nConnects' = c
  /\ UNCHANGED <<stale, registered>>
  /\ IF accessOk
       THEN /\ procs' = Append(procs, "running")
            /\ nodeProcess' = Len(procs) + 1
            /\ calls' = [calls EXCEPT ![c].pc = "awaitStart", ![c].retries = Retries,
                                      ![c].proc = Len(procs) + 1]
            /\ plast' = NoP2POp
            /\ UNCHANGED <<client, stream, messageHandler, connected, streams, clients,
                           established>>
       ELSE Reject(c, calls, "start", procs, clients)
  /\ UNCHANGED httpVars
  /\ UNCHANGED variant

\* setTimeout(resolve, 1000) of startNode fires: connect goes on to its 2000 ms wait.
StartTimer(c) ==
  /\ variant = "p2p"
  /\ calls[c].pc = "awaitStart"
  /\ calls' = [calls EXCEPT ![c].pc = "settle"]
  /\ plast' = NoP2POp
  /\ UNCHANGED <<variant, httpVars, client, stream, messageHandler,
                  connected, nodeProcess, procs, streams, clients, nConnects,
                  established, stale, registered>>

\* The call whose startNode promise is still pending on process p.
Awaiting(p) == {c \in 1..MaxConnects : calls[c].pc = "awaitStart" /\ calls[c].proc = p}

\* The "exit" listener of process p: a code other than 0 (null after a signal)
\* rejects the startNode promise, which has an effect only while it is pending.
ProcExit(p, code) ==
  /\ variant = "p2p"
  /\ p \in DOMAIN procs
  /\ procs[p] \in {"running", "killed"}
  /\ procs[p] = "killed" => code = -1
  /\ procs[p] = "running" => code \in {0, 1}
  /\ IF code # 0 /\ Awaiting(p) # {}
       THEN /\ Reject(CHOOSE c \in Awaiting(p) : TRUE, calls, "start",
                       [procs EXCEPT ![p] = "exited"], clients)
            /\ UNCHANGED <<stale, nConnects>>
       ELSE /\ procs' = [procs EXCEPT ![p] = "exited"]
            /\ plast' = NoP2POp
            /\ UNCHANGED <<client, stream, messageHandler, connected, nodeProcess,
                           streams, clients, calls, nConnects, established, stale>>
  /\ UNCHANGED registered
  /\ UNCHANGED httpVars
  /\ UNCHANGED variant

\* The 2000 ms wait of call c ends: the descriptor is loaded, which may throw, and
\* the retry loop makes its first pass.
SettleTimer(c, loadOk, outcome) ==
  /\ variant = "p2p"
  /\ calls[c].pc = "settle"
  /\ IF loadOk THEN Attempt(c, calls, outcome)
               ELSE Reject(c, calls, "load", procs, clients)
  /\ UNCHANGED <<nConnects, stale, registered>>
  /\ UNCHANGED httpVars
  /\ UNCHANGED variant

\* The 1000 ms backoff of call c ends: the loop makes its next pass.
BackoffTimer(c, outcome) ==
  /\ variant = "p2p"
  /\ calls[c].pc = "backoff"
  /\ Attempt(c, [calls EXCEPT ![c].backoffs = @ + 1], outcome)
  /\ UNCHANGED <<nConnects, stale, registered>>
  /\ UNCHANGED httpVars
  /\ UNCHANGED variant

Pending == {c \in 1..MaxConnects : calls[c].pc \in {"awaitStart", "settle", "backoff"}}

\* disconnect(): cancel the stream, kill the process, cleanup().
Disconnect ==
  /\ variant = "p2p"
  /\ Cleanup(Kill(procs, nodeProcess), Cancel(streams, stream))
  /\ established' = FALSE
  /\ stale' = stale \cup Pending
  /\ plast' = [NoP2POp EXCEPT !.op = "disconnect", !.result = "resolved"]
  /\ UNCHANGED <<clients, calls, nConnects, registered>>
  /\ UNCHANGED httpVars
  /\ UNCHANGED variant

\* onMessage(handler) of the streaming client.
OnMessageP2P(h) ==
  /\ variant = "p2p"
  /\ messageHandler' = h
  /\ registered' = h
  /\ plast' = NoP2POp
  /\ UNCHANGED <<variant, httpVars, client, stream, connected, nodeProcess,
                  procs, streams, clients, calls, nConnects, established,
                  stale>>

\* sendMessage's outcome: the flag is tested, then this.client.SendMessage is
\* called inside the try, and any failure there is wrapped.
SendMessageResult(rpcOk) ==
  IF ~connected THEN "NotConnected"
  ELSE IF client = NoHandle \/ ~rpcOk THEN "SendFailed"
  ELSE "resolved"

\* listAgents' outcome: the flag and the client handle are tested.
ListAgentsResult(rpcOk) ==
  IF ~connected \/ client = NoHandle THEN "NotConnected"
  ELSE IF ~rpcOk THEN "ListFailed"
  ELSE "resolved"

SendMessage(rpcOk) ==
  /\ variant = "p2p"
  /\ plast' = [NoP2POp EXCEPT !.op = "sendMessage", !.result = SendMessageResult(rpcOk)]
  /\ UNCHANGED <<variant, httpVars, client, stream, messageHandler,
                  connected, nodeProcess, procs, streams, clients, calls,
                  nConnects, established, stale, registered>>

ListAgents(rpcOk) ==
  /\ variant = "p2p"
  /\ plast' = [NoP2POp EXCEPT !.op = "listAgents", !.result = ListAgentsResult(rpcOk)]
  /\ UNCHANGED <<variant, httpVars, client, stream, messageHandler,
                  connected, nodeProcess, procs, streams, clients, calls,
                  nConnects, established, stale, registered>>

StreamEvents == {"ready", "peerConnected", "error", "message"}

\* A faulty variant: every event is passed to the registered handler.
DataTargetAny(kind) == messageHandler

\* The handler the "data" listener passes an event to: the registered one, for a
\* message event.
DataTarget(kind) == IF kind = "message" THEN messageHandler ELSE NoHandle

\* The "data" listener of stream s.
StreamData(s, kind) ==
  /\ variant = "p2p"
  /\ s \in DOMAIN streams
  /\ streams[s] = "open"
  /\ plast' = [NoP2POp EXCEPT !.op = "data", !.result = kind,
                               !.handler = DataTarget(kind), !.from = s]
  /\ UNCHANGED <<variant, httpVars, client, stream, messageHandler,
                  connected, nodeProcess, procs, streams, clients, calls,
                  nConnects, established, stale, registered>>

\* A faulty variant: the listener only logs the error.
StreamErrorLogged(s) ==
  /\ variant = "p2p"
  /\ s \in DOMAIN streams
  /\ streams[s] \in {"open", "cancelled"}
  /\ streams' = [streams EXCEPT ![s] = "closed"]
  /\ plast' = [NoP2POp EXCEPT !.op = "streamError", !.from = s]
  /\ UNCHANGED <<variant, httpVars, client, stream, messageHandler,
                  connected, nodeProcess, procs, clients, calls, nConnects,
                  established, stale, registered>>

\* The "error" listener of stream s; a cancelled stream ends with an error too.
StreamError(s) ==
  /\ variant = "p2p"
  /\ s \in DOMAIN streams
  /\ streams[s] \in {"open", "cancelled"}
  /\ streams' = [streams EXCEPT ![s] = "closed"]
  /\ connected' = FALSE
  /\ plast' = [NoP2POp EXCEPT !.op = "streamError", !.from = s]
  /\ UNCHANGED <<variant, httpVars, client, stream, messageHandler,
                  nodeProcess, procs, clients, calls, nConnects, established,
                  stale, registered>>

\* The session: connect with its timers, the node process, the stream's end,
\* disconnect.
Session ==
  \/ \E c \in 1..MaxConnects, accessOk \in BOOLEAN : Connect(c, accessOk)
  \/ \E c \in 1..MaxConnects : StartTimer(c)
  \/ \E p \in DOMAIN procs, code \in {-1, 0, 1} : ProcExit(p, code)
  \/ \E c \in 1..MaxConnects, loadOk \in BOOLEAN, outcome \in AttemptOutcomes :
       SettleTimer(c, loadOk, outcome)
  \/ \E c \in 1..MaxConnects, outcome \in AttemptOutcomes : BackoffTimer(c, outcome)
  \/ Disconnect
  \/ \E s \in DOMAIN streams : StreamError(s)

\* The session with the unary calls.
NextP2P ==
  \/ Session
  \/ \E rpcOk \in BOOLEAN : SendMessage(rpcOk)
  \/ \E rpcOk \in BOOLEAN : ListAgents(rpcOk)

\* The session with the inbound events and their handler.
NextStream ==
  \/ Session
  \/ \E h \in Handlers : OnMessageP2P(h)
  \/ \E s \in DOMAIN streams, kind \in StreamEvents : StreamData(s, kind)

InitStreaming == variant = "p2p" /\ InitHttp /\ InitP2P

SpecP2P == InitStreaming /\ [][NextP2P]_vars

SpecStream == InitStreaming /\ [][NextStream]_vars

\* What the application does with either HTTP client.
Lifecycle ==
  \/ OnMessage
  \/ OnError
  \/ Start
  \/ \E status \in Statuses : RegisterResponse(status)
  \/ Stop

\* The polling client with its server and its timer.
NextPoll ==
  \/ Lifecycle
  \/ \E ts \in 1..MaxTs : ServerStore(ts)
  \/ \E i \in intervals : PollTick(i)
  \/ \E since \in 0..MaxTs, status \in Statuses \ {409} : PollResponse(since, status)
  \/ \E throws \in BOOLEAN : DeliverNext(throws)

\* The push client with its subscriptions.
NextPush ==
  \/ Lifecycle
  \/ \E src \in sources, ev \in Events, throws \in BOOLEAN : PushEvent(src, ev, throws)
  \/ \E src \in sources : EventSourceError(src)

\* Either client with its unary calls.
NextHttp ==
  \/ Lifecycle
  \/ \E op \in UnaryOps : UnaryCall(op)
  \/ \E status \in Statuses \ {409} : UnaryResponse(status)

InitPoll == variant = "poll" /\ InitHttp /\ InitP2P

InitPush == variant = "push" /\ InitHttp /\ InitP2P

InitEither == variant \in {"poll", "push"} /\ InitHttp /\ InitP2P

SpecPoll == InitPoll /\ [][NextPoll]_vars

SpecPush == InitPush /\ [][NextPush]_vars

SpecHttp == InitEither /\ [][NextHttp]_vars

\* ------------------------------------------------------ claims: polling client

Range(q) == {q[i] : i \in DOMAIN q}

SetMax(S) == CHOOSE x \in S : \A y \in S : x >= y

\* The callback got no message more than once.
NoDuplicateDelivery == \A i \in 1..Len(store) : handed[i] <= 1

\* A stored message the loop has not reached can still be fetched: it is above
\* the watermark, or a request in flight asks for it, or it waits in the response
\* being iterated over.
NoLostMessage ==
  \A i \in 1..Len(store) :
    i \notin seen =>
      \/ store[i] > lastMessageTimestamp
      \/ \E s \in 0..MaxTs : polls[s] > 0 /\ store[i] > s
      \/ \E k \in DOMAIN cur : cur[k].id = i

\* C2: every message for the agent is handed to the message callback exactly once
\* over any sequence of poll ticks: none is delivered twice and none is lost,
\* whatever the timestamps, arrival times and response latencies.
C2_ExactlyOnce == NoDuplicateDelivery /\ NoLostMessage

\* C3: the watermark never decreases, in any step of any behaviour (out-of-order
\* responses included).
C3_WatermarkMonotone == [][lastMessageTimestamp' >= lastMessageTimestamp]_vars

\* A response not in timestamp order has been iterated over to its end.
C3_Witness ==
  /\ tick.status = "done"
  /\ Len(tick.resp) = 2
  /\ tick.resp[1].timestamp > tick.resp[2].timestamp
  /\ lastMessageTimestamp = tick.resp[1].timestamp

\* C4: a poll tick that completes hands each message of the response to the
\* callback once, in the server's order, and ends with the watermark at the
\* maximum of its previous value and the response's timestamps; a tick with an
\* empty response calls the callback zero times and keeps the watermark.
C4_TickDelivers ==
  tick.status = "done" =>
    /\ tick.got = IF tick.cb THEN [i \in 1..Len(tick.resp) |-> tick.resp[i].id]
                  ELSE <<>>
    /\ lastMessageTimestamp =
         SetMax({tick.wm0} \cup {tick.resp[i].timestamp : i \in 1..Len(tick.resp)})
    /\ tick.resp = <<>> => (tick.got = <<>> /\ lastMessageTimestamp = tick.wm0)

\* Two messages with timestamps 1 and 2 were delivered in that order, the
\* watermark is 2, and the following tick's empty response has been handled.
C4_Witness ==
  /\ store = <<1, 2>>
  /\ handed[1] = 1 /\ handed[2] = 1
  /\ lastMessageTimestamp = 2
  /\ tick.status = "done"
  /\ tick.resp = <<>>
  /\ tick.wm0 = 2

\* ---------------------------------------------------------- claims: push client

\* The arrivals that are well-formed, addressed to the configured identity and
\* met a registered callback, by position.
ExpectedPush ==
  SelectSeq([i \in 1..Len(arrived) |-> i],
            LAMBDA i : arrived[i].wf /\ arrived[i].to = privateKey /\ arrived[i].cb)

\* C8: an inbound event for another recipient never reaches the message callback;
\* every well-formed inbound event for the configured identity is handed to the
\* registered callback exactly once, in arrival order.
C8_PushFiltering ==
  /\ \A k \in Range(delivered) : arrived[k].to = privateKey /\ privateKey # 0
  /\ privateKey # 0 => delivered = ExpectedPush

\* An event for us, one for another agent and another for us have arrived; the
\* callback got the first and the third.
C8_Witness ==
  /\ Len(arrived) = 3
  /\ arrived[2].wf /\ arrived[2].to # privateKey
  /\ delivered = <<1, 3>>

\* ------------------------------------------------------- claims: both HTTP clients

\* C9: a registration answered with 409 lets start() resolve and start polling (or
\* open the subscription) exactly as a 2xx does; a second start() with the same
\* identity does not reject because of registration.
C9_ConflictIsSuccess ==
  [][(registering' = registering - 1 /\ last'.status \in {200, 409})
       => /\ last'.op = "start" /\ last'.result = "resolved"
          /\ IF variant = "poll"
               THEN pollInterval' \in intervals' \ intervals
               ELSE eventSource' \in sources' \ sources]_vars

\* A second start() was answered 409 and resolved with a fresh interval.
C9_Witness ==
  /\ nStarts = 2
  /\ registering = 0
  /\ last.op = "start" /\ last.status = 409 /\ last.result = "resolved"
  /\ variant = "poll"
  /\ pollInterval = 2 /\ pollInterval \in intervals

\* C10: a unary call that gets a non-2xx response or no response rejects, and the
\* registered error callback has been called by then; without a callback the call
\* rejects all the same.
C10_ReportAndReject ==
  (last.op \in UnaryOps /\ last.status # 200) =>
    /\ last.result = "rejected"
    /\ last.cb => last.errs >= 1
    /\ ~last.cb => last.errs = 0

\* listAgents got no response while an error callback was registered.
C10_Witness ==
  /\ last.op = "listAgents"
  /\ last.status = 0
  /\ last.cb
  /\ last.result = "rejected"

\* ----------------------------------------------------- claims: streaming client

\* C1: sendMessage and listAgents fail with the not-connected error whenever no
\* connect call made since the last disconnect (or since construction) has
\* resolved.
C1_NotConnectedUnlessEstablished ==
  (plast.op \in {"sendMessage", "listAgents"} /\ ~established)
    => plast.result = "NotConnected"

\* C5: connect never makes a fourth attempt; when every attempt fails it rejects
\* at the third failure, having waited out a backoff before the second and the
\* third; every attempt but the first starts from a backoff wait, and a call that
\* has resolved or rejected attempts nothing more.
C5_ThreeAttempts ==
  /\ [](\A c \in 1..MaxConnects :
          /\ calls[c].attempts <= Retries
          /\ (calls[c].pc = "rejected" /\ calls[c].why = "handshake")
               => (calls[c].attempts = Retries /\ calls[c].backoffs = Retries - 1)
          /\ calls[c].pc = "backoff" => calls[c].attempts < Retries
          /\ calls[c].pc = "resolved" => calls[c].backoffs = calls[c].attempts - 1)
  /\ [][\A c \in 1..MaxConnects :
          calls'[c].attempts # calls[c].attempts =>
            /\ calls'[c].attempts = calls[c].attempts + 1
            /\ calls[c].pc = (IF calls[c].attempts = 0 THEN "settle" ELSE "backoff")
            /\ calls'[c].backoffs = calls[c].attempts]_vars

\* A connect call has been rejected by its third failed attempt.
C5_Witness ==
  \E c \in 1..MaxConnects :
    /\ calls[c].pc = "rejected"
    /\ calls[c].why = "handshake"
    /\ calls[c].attempts = Retries
    /\ calls[c].backoffs = Retries - 1
    /\ plast.op = "connect" /\ plast.call = c /\ plast.result = "rejected"

\* C6: when connect resolves after one or more failed attempts, the only client
\* object and the only stream still open are the ones in the session's handles,
\* and the only running subprocess is the one in the subprocess handle.
C6_NothingLeakedOnSuccess ==
  (/\ plast.op = "connect"
   /\ plast.result = "resolved"
   /\ calls[plast.call].attempts > 1)
    => /\ \A k \in DOMAIN clients : clients[k] = "open" => k = client
       /\ \A k \in DOMAIN streams : streams[k] = "open" => k = stream
       /\ \A k \in DOMAIN procs : procs[k] = "running" => k = nodeProcess

\* C7: when connect rejects, the subprocess this call spawned is not left running,
\* the connected flag is false and the client, stream and subprocess handles are
\* empty.
C7_CleanOnReject ==
  (plast.op = "connect" /\ plast.result = "rejected")
    => /\ calls[plast.call].proc # NoHandle
            => procs[calls[plast.call].proc] # "running"
       /\ ~connected
       /\ client = NoHandle
       /\ stream = NoHandle
       /\ nodeProcess = NoHandle

\* ------------------------------------------------- claims: polling client, errors

RECURSIVE SumTo(_, _)
SumTo(f, n) == IF n < 0 THEN 0 ELSE f[n] + SumTo(f, n - 1)

\* The getMessages requests in flight.
InFlight(p) == SumTo(p, MaxTs)

\* C11: a poll tick whose getMessages call fails reports the failure through the
\* error callback (when one is registered), leaves the interval and the field
\* holding it as they are, issues no request of its own and touches neither the
\* watermark nor the callback's log; and whenever an interval is alive and no
\* handler is running, its next tick can fire and issue a request.
C11_FailedTickKeepsPolling ==
  /\ [][(last'.op = "poll" /\ last'.status # 200) =>
          /\ last'.cb => last'.errs >= 1
          /\ ~last'.cb => last'.errs = 0
          /\ intervals' = intervals
          /\ pollInterval' = pollInterval
          /\ InFlight(polls') = InFlight(polls) - 1
          /\ lastMessageTimestamp' = lastMessageTimestamp
          /\ handed' = handed]_vars
  /\ [](\A i \in intervals : (Quiet /\ nTicks < MaxPolls) => ENABLED PollTick(i))

\* A tick has failed with an error callback registered; its interval is alive,
\* and the next tick is still to come.
C11_Witness ==
  /\ last.op = "poll" /\ last.status = 500 /\ last.result = "caught"
  /\ last.cb /\ last.errs >= 1
  /\ pollInterval # NoHandle /\ pollInterval \in intervals
  /\ nTicks < MaxPolls
  /\ InFlight(polls) = 0

\* ------------------------------------------------------ claims: stop() and start()

\* C12: when stop() returns, no interval and no subscription the instance created
\* is still active and the fields are empty, whatever start() and stop() calls came
\* before; a stop() with nothing to stop changes nothing.
C12_StopLeavesNothingActive ==
  [][Stop => /\ intervals' = {}
             /\ sources' = {}
             /\ pollInterval' = NoHandle
             /\ eventSource' = NoHandle
             /\ (pollInterval = NoHandle /\ eventSource = NoHandle)
                  => (intervals' = intervals /\ sources' = sources)]_vars

\* -------------------------------------------- claims: streaming client, session

\* The session's fields hold their initial values.
Disconnected ==
  /\ ~connected
  /\ client = NoHandle
  /\ stream = NoHandle
  /\ nodeProcess = NoHandle

\* C13: disconnect() leaves the stream that was in the handle not open and the
\* process that was in the handle not running, and leaves the connected flag false
\* and the client, stream and subprocess handles empty; called on a disconnected
\* session it changes no stream, process, client object or field.
C13_DisconnectResets ==
  [][Disconnect =>
       /\ Disconnected'
       /\ stream # NoHandle => streams'[stream] # "open"
       /\ nodeProcess # NoHandle => procs'[nodeProcess] # "running"
       /\ Disconnected =>
            /\ streams' = streams
            /\ procs' = procs
            /\ clients' = clients]_vars

\* disconnect() has just returned, having cancelled an open stream and signalled
\* a running process.
C13_Witness ==
  /\ plast.op = "disconnect"
  /\ Disconnected
  /\ \E s \in DOMAIN streams : streams[s] = "cancelled"
  /\ \E p \in DOMAIN procs : procs[p] = "killed"

\* C14: a message event is delivered to the handler of the latest onMessage call
\* and to no other one (to none when onMessage was never called), whatever
\* connect, failed connect or disconnect came in between.
C14_LatestHandlerGetsMessages ==
  (plast.op = "data" /\ plast.result = "message") => plast.handler = registered

\* C15: a stream's error event leaves the session not connected and starts
\* nothing: no process is spawned, no client object constructed, no connect call
\* begun or advanced by it.  While the flag is false sendMessage and listAgents
\* fail with the not-connected error, and the flag turns true only in a step in
\* which a connect() call resolves; processes are spawned only by a connect()
\* call and client objects constructed only by an attempt of one.
C15_StreamErrorDegrades ==
  /\ [][(plast'.op = "streamError") =>
          /\ ~connected'
          /\ procs' = procs
          /\ clients' = clients
          /\ calls' = calls
          /\ nConnects' = nConnects]_vars
  /\ []((plast.op \in {"sendMessage", "listAgents"} /\ ~connected)
          => plast.result = "NotConnected")
  /\ [][(~connected /\ connected') =>
          \E c \in 1..MaxConnects :
            calls[c].pc # "resolved" /\ calls'[c].pc = "resolved"]_vars
  /\ [][/\ Len(procs') > Len(procs) => nConnects' = nConnects + 1
        /\ Len(clients') > Len(clients) =>
             \E c \in 1..MaxConnects : calls'[c].attempts = calls[c].attempts + 1]_vars

\* sendMessage has failed with the not-connected error on a session whose stream
\* ended with an error: the handles are still set and the process still runs.
C15_Witness ==
  /\ plast.op = "sendMessage" /\ plast.result = "NotConnected"
  /\ client # NoHandle
  /\ stream # NoHandle /\ streams[stream] = "closed"
  /\ nodeProcess # NoHandle /\ procs[nodeProcess] = "running"
  /\ \A c \in 1..MaxConnects : calls[c].pc \in {"idle", "resolved"}

\* ------------------------------------------------- claims: push client, errors

\* C16: an inbound event whose data does not parse calls the error callback once
\* (when one is registered) and the message callback not at all, and closes no
\* subscription; the events delivered stay exactly the well-formed ones addressed
\* to the agent, those after a malformed one included.
C16_MalformedIsReportedAndDropped ==
  /\ [][(Len(arrived') = Len(arrived) + 1 /\ ~arrived'[Len(arrived')].wf) =>
          /\ last'.op = "event" /\ last'.result = "caught"
          /\ last'.cb => last'.errs = 1
          /\ ~last'.cb => last'.errs = 0
          /\ delivered' = delivered
          /\ sources' = sources
          /\ eventSource' = eventSource]_vars
  /\ [](\A k \in 1..Len(arrived) :
          (arrived[k].wf /\ arrived[k].to = privateKey /\ privateKey # 0
             /\ arrived[k].cb)
            => \E j \in 1..Len(delivered) : delivered[j] = k)

\* A malformed event was reported and dropped, and the well-formed event for the
\* agent that came after it on the same subscription was delivered.
C16_Witness ==
  /\ Len(arrived) = 2
  /\ ~arrived[1].wf
  /\ arrived[2].wf /\ arrived[2].to = privateKey
  /\ delivered = <<2>>
  /\ Cardinality(sources) = 1
  /\ last.op = "event" /\ last.result = "handled"

\* C17: a polling interval or a push subscription comes into being only in the
\* step in which a start() call resolves after its registration request was
\* answered 2xx or 409; without an interval no tick can fire and without a
\* subscription no event can arrive.  When the registration fails otherwise,
\* start() rejects, a registered error callback has been called, and the step
\* creates no interval and no subscription and leaves both fields as they were
\* (empty, on a client that was not started before).
C17_RegisterThenDeliver ==
  /\ [][(intervals' # intervals \/ sources' # sources) =>
          \/ Stop
          \/ /\ last'.op = "start" /\ last'.result = "resolved"
             /\ last'.status \in {200, 409}
             /\ registering' = registering - 1]_vars
  /\ [](\A i \in 1..MaxStarts :
          /\ (ENABLED PollTick(i)) => i \in intervals
          /\ (ENABLED EventSourceError(i)) => i \in sources)
  /\ [][(registering' = registering - 1 /\ last'.status \notin {200, 409}) =>
          /\ last'.op = "start" /\ last'.result = "rejected"
          /\ last'.cb => last'.errs >= 1
          /\ intervals' = intervals /\ sources' = sources
          /\ pollInterval' = pollInterval /\ eventSource' = eventSource
          /\ nStarts = 1 => (intervals' = {} /\ sources' = {}
                               /\ pollInterval' = NoHandle
                               /\ eventSource' = NoHandle)]_vars

\* The first start() of a client with an error callback has been rejected by a
\* registration answered 500.
C17_Witness ==
  /\ nStarts = 1 /\ registering = 0
  /\ last.op = "start" /\ last.status = 500 /\ last.result = "rejected"
  /\ last.cb /\ last.errs >= 1
  /\ intervals = {} /\ sources = {}

\* ------------------------------------------- claims: polling client, the loop

\* C18: once the handling of a response by a registered callback has ended (the
\* loop ran to its end, or the callback threw), the watermark is below the
\* timestamp of every message of that response that was not passed to the
\* callback.
C18_WatermarkAfterCallback ==
  (tick.status \in {"done", "threw"} /\ tick.cb) =>
    \A k \in 1..Len(tick.resp) :
      (\A j \in 1..Len(tick.got) : tick.got[j] # tick.resp[k].id)
        => lastMessageTimestamp < tick.resp[k].timestamp

\* C19: at most one poll cycle is in progress: the getMessages requests in flight
\* and the response being delivered number one at most.
C19_OneCycleAtATime ==
  InFlight(polls) + (IF cur # <<>> THEN 1 ELSE 0) <= 1

\* ------------------------------------- claims: streaming client, the node process

\* C20: when the node process exits with a code other than 0, a connect() call
\* still awaiting its start is rejected, and a session that runs on that process
\* does not stay connected.
C20_NodeExitIsFatal ==
  [][\A p \in DOMAIN procs :
       ProcExit(p, 1) =>
         /\ \A c \in Awaiting(p) : calls'[c].pc = "rejected"
         /\ (p = nodeProcess /\ connected) => ~connected']_vars

\* C21: when disconnect() returns, no process the instance ever spawned is still
\* running without having been signalled.
C21_NoProcessOutlivesSession ==
  [][Disconnect => \A p \in DOMAIN procs' : procs'[p] # "running"]_vars

\* ------------------------------------------ claims: streaming client, the events

\* C22: the data listener calls a handler only for a message event, and then the
\* handler that is registered when the event arrives; with none registered the
\* event is dropped.  Nothing but the arrival of an event calls a handler: a
\* registration (onMessage) delivers nothing.
C22_OnlyMessagesToRegisteredHandler ==
  /\ [](plast.op = "data" =>
          /\ plast.result # "message" => plast.handler = NoHandle
          /\ plast.result = "message" => plast.handler = messageHandler)
  /\ [][plast'.handler # NoHandle =>
          /\ plast'.op = "data" /\ plast'.result = "message"
          /\ plast'.handler = messageHandler
          /\ messageHandler' = messageHandler]_vars

\* A ready event has arrived on an open stream while a handler was registered,
\* and was passed to no handler.
C22_Witness ==
  /\ plast.op = "data" /\ plast.result = "ready"
  /\ messageHandler # NoHandle
  /\ plast.handler = NoHandle
  /\ connected

\* ------------------------------------------- claims: HTTP clients, registration

\* C23: a start() whose registration is answered 409 resolves, and the error
\* callback has not been called for it.
C23_ConflictIsSilent ==
  (last.op = "start" /\ last.status = 409)
    => (last.result = "resolved" /\ last.errs = 0)

\* C24: stop() wins over a start() that is still in flight.  When stop() has
\* just returned while a start() awaits the registration response, and that
\* response arrives next, the instance has no active polling interval and no
\* open push subscription afterwards.
C24_StopWinsOverStart ==
  [][(last.op = "stop" /\ registering > 0 /\ registering' < registering)
       => (intervals' = {} /\ sources' = {})]_vars

\* C25: events of a stream that belongs to an earlier session never affect a
\* later session.  An error event of a stream other than the one the session
\* holds leaves the connected flag of a connected session set.
C25_OldStreamErrorIgnored ==
  [][(plast'.op = "streamError" /\ plast'.from # stream /\ connected)
       => connected']_vars

\* C26: in every reachable state, connected = true implies that the RPC client
\* handle and the stream handle are both non-empty, so a sendMessage that passes
\* the test of the flag never finds an empty client handle and fails only when
\* the RPC itself fails.
C26_ConnectedHasHandles ==
  /\ connected => (client # NoHandle /\ stream # NoHandle)
  /\ (plast.op = "sendMessage" /\ plast.result = "SendFailed") => client # NoHandle

C26_Witness ==
  /\ connected
  /\ client # NoHandle /\ stream # NoHandle
  /\ plast.op = "sendMessage" /\ plast.result = "resolved"
  /\ \E c \in 1..MaxConnects : calls[c].pc = "rejected"
  /\ Len(clients) > 1

====
